---- MODULE Spec2Model ----
(***************************************************************************)
(* Weather widget of the tourism site script (cache-then-fetch-then-render *)
(* flow of initWeatherOverlay) as a state machine.                         *)
(*                                                                         *)
(* One action per UI event handler and per settlement of a pending await.  *)
(* The cache-hit path of renderWeatherFromCacheOrFetch only suspends on    *)
(* already-settled promises (microtasks), so no UI event can interleave    *)
(* with it and it is one atomic step; a network fetch suspends twice       *)
(* (fetch(), then res.json()) and UI events interleave with both waits.    *)
(***************************************************************************)
EXTENDS Integers, Sequences, FiniteSets, TLC

(* ------------------------------------------------------------------ *)
(* Program constants                                                    *)
(* ------------------------------------------------------------------ *)

\* APP.weather.cacheTtlMs
cacheTtlMs == 600000

\* APP.cities, restricted to its first two entries (ids stand for the
\* records; the id of a record identifies its lat/lon).
cities == <<"erbil", "sulaymaniyah">>

\* String(city.lat), String(city.lon) of the registered cities
coords ==
  [erbil |-> [lat |-> "36.1911", lon |-> "44.0092"],
   sulaymaniyah |-> [lat |-> "35.5653", lon |-> "45.4329"]]

\* values of the <option>s of the city select (opt.value = c.id)
CityOptions == {cities[i] : i \in 1..Len(cities)}

\* values of the unit radio inputs (v = inp.value === "f" ? "f" : "c")
Units == {"c", "f"}

(* ------------------------------------------------------------------ *)
(* Bounds of the model                                                  *)
(* ------------------------------------------------------------------ *)

\* number of times the clock is advanced
MaxTicks == 1

\* number of network requests issued in a run
MaxRequests == 2

\* number of cache writes of the second tab
MaxPeerWrites == 1

\* largest weather code tried besides the out-of-table ones
MaxCode == 100

\* largest length of an hourly array (forecast_hours is 24)
MaxHours == 24

\* largest number of entries of the overlay stack
MaxStack == 3

\* largest temperature tried, in half degrees C (200 is 100 degrees)
MaxHalfDegrees == 200

\* amounts by which Date.now() advances between two steps: up to the last
\* instant an entry is still valid, and just past it
TickSteps == {cacheTtlMs, cacheTtlMs + 1}

(* ------------------------------------------------------------------ *)
(* Values                                                               *)
(* ------------------------------------------------------------------ *)

\* null for a payload (fromCache's "return null")
NoData == [loc |-> "null", time |-> 0, temp |-> 0]

\* current.temperature_2m the provider reports for a location, in tenths
\* of a degree Celsius
TempC(loc) == IF loc = cities[1] THEN 215 ELSE 180

\* a response body: the location whose coordinates were requested and the
\* provider's observation time (current.time), which tells two responses
\* for the same location apart
Response(loc, t) == [loc |-> loc, time |-> t, temp |-> TempC(loc)]

NoError == "null"

\* undefined for a city record (Array.prototype.find without a match)
NoCity == "undefined"

\* err.message of fetchWeather's "if (!city) throw"
ErrCity == "City not found"

\* err.message of the three ways fetchWeather can throw after the cache check
ErrTransport == "Failed to fetch"
ErrStatus == "Weather request failed (500)"
ErrParse == "Unexpected token < in JSON"

NoLive == [key |-> "", force |-> FALSE, stale |-> FALSE, data |-> NoData, t |-> 0]

Errors == {ErrTransport, ErrStatus, ErrParse}

\* no result yet of codeToIcon
NoIcon == [icon |-> "", label |-> ""]

\* the number NaN (Number(undefined)) as an argument of codeToIcon
NaN == -1000000

\* a payload without hourly arrays (each array then reads as [])
NoHourly ==
  [time |-> <<>>, temperature_2m |-> <<>>, weather_code |-> <<>>,
   wind_speed_10m |-> <<>>, relative_humidity_2m |-> <<>>]

\* the text formatNumber returns for a value that is not a finite number
Dash == -1

\* no temperature rendered yet
NoTemp == [done |-> FALSE, value |-> 0]

\* the news list before initNews has rendered it
NoView == [visible |-> {}, page |-> 0, totalPages |-> 0,
           prevDisabled |-> TRUE, nextDisabled |-> TRUE]

\* renderCart for an empty cart: "Your cart is empty.", "0.00", "0"
EmptyCartShown == [lines |-> <<>>, total |-> [int |-> 0, frac |-> 0], count |-> 0]

\* the gallery modal before setModal has filled it
NoLightbox == [item |-> -1, from |-> "none"]

\* localStorage has no kurdistan_news_page item
NoPage == -1

\* kinds of lastStep left by an invocation of renderWeatherFromCacheOrFetch
UiKinds == {"ignored", "cache", "request"}

VARIABLES
  cityId,      \* STATE.weather.cityId
  units,       \* STATE.weather.units
  cache,       \* STATE.weather.cache: key -> [ts, data], DOMAIN = keys present
  isLoading,   \* STATE.weather.isLoading
  lastError,   \* STATE.weather.lastError
  storedCache, \* localStorage[kurdistan_weather_cache] (the JSON text)
  storedUnits, \* localStorage[kurdistan_weather_units]
  storedCity,  \* localStorage[kurdistan_weather_city]
  inflight,    \* suspended fetchWeather calls, each waiting on the network
  shown,       \* what the weather cards display
  now,         \* Date.now()
  ticks,       \* number of clock advances so far
  requests,    \* number of network requests issued so far
  live,        \* history: the latest fetchWeather call that returned a live result
  lastStep,    \* history: kind of the latest step (and force of an invocation)
  peerCache,   \* STATE.weather.cache of a second page instance (another tab)
  peerWrites,  \* number of cache writes the second instance has made
  wcode,       \* argument of a call of codeToIcon
  wicon,       \* what that call returned (NoIcon before the call)
  hourly,      \* data.hourly of the payload handed to renderWeather
  forecast,    \* the forecast card: whether it was rendered, and its rows
  tempC,       \* a temperature_2m value of a payload (tenths of a degree C)
  tempShown,   \* the temperature renderWeather hands to formatNumber for it
  overlayStack, \* STATE.overlayStack: entries [el, type], top last
  shownLayers, \* the overlays and modals that are not hidden
  lockCount,   \* lockCount of disableBodyScroll
  navOpen,     \* the mobile navigation is not hidden
  lastUi,      \* history: the latest overlay / navigation event
  newsCount,   \* number of news cards of the page (STATE.news.items.length)
  news,        \* STATE.news: filter, query, page
  newsView,    \* the news list as displayed: visible cards, label, buttons
  storedNewsPage, \* localStorage[kurdistan_news_page], in tenths
  lastNews,    \* history: the latest news event
  galleryTotal, \* STATE.gallery.items.length
  gallery,     \* STATE.gallery: filter, currentIndex (in halves)
  galleryHidden, \* the gallery cards with display: none
  lightbox,    \* the gallery modal: the item setModal showed, who opened it
  indexBefore, \* history: currentIndex before the latest move
  lastGallery, \* history: the latest gallery event
  cart,        \* src/script.js cart: lines [id, price, qty], price in cents
  cartShown,   \* what renderCart wrote: #cart-items, #cart-total, #cart-count
  cartPanelOpen, \* #cart-panel has class open
  adds,        \* history: number of clicks that added to the cart
  lastClick    \* history: the latest click of the shop page

\* a temperature on its way to the display
tempVars == <<tempC, tempShown>>

\* overlays, modals, mobile navigation and the body-scroll lock
overlayVars == <<overlayStack, shownLayers, lockCount, navOpen, lastUi>>

\* the news list and its pagination
newsVars == <<newsCount, news, newsView, storedNewsPage, lastNews>>

\* the gallery grid and its lightbox
galleryVars ==
  <<galleryTotal, gallery, galleryHidden, lightbox, indexBefore, lastGallery>>

\* the shop page of src/script.js
cartVars == <<cart, cartShown, cartPanelOpen, adds, lastClick>>

\* the state of the other parts of the page
rest == <<tempVars, overlayVars, newsVars, galleryVars, cartVars>>

\* the state outside the weather widget of this page instance
others == <<peerCache, peerWrites, wcode, wicon, hourly, forecast, rest>>

vars == <<cityId, units, cache, isLoading, lastError, storedCache, storedUnits,
          storedCity, inflight, shown, now, ticks, others, requests, live, lastStep>>

\* the weather widget, its second instance and its pure helpers
weatherSide ==
  <<cityId, units, cache, isLoading, lastError, storedCache, storedUnits, storedCity,
    inflight, shown, now, ticks, requests, live, lastStep, peerCache, peerWrites,
    wcode, wicon, hourly, forecast>>

(* ------------------------------------------------------------------ *)
(* Pure helpers of initWeatherOverlay                                   *)
(* ------------------------------------------------------------------ *)

\* const buildKey = () => `${STATE.weather.cityId}_${STATE.weather.units}`
buildKey(cid, un) == cid \o "_" \o un

Keys == {buildKey(c, u) : c \in CityOptions, u \in Units}

\* mutant: no "|| APP.cities[0]"
getCityWithoutFallback(id) ==
  IF \E i \in 1..Len(cities) : cities[i] = id THEN id ELSE NoCity

\* const getCity = (id) => APP.cities.find((c) => c.id === id) || APP.cities[0]
getCity(id) ==
  IF \E i \in 1..Len(cities) : cities[i] = id THEN id ELSE cities[1]

\* const toF = (c) => (c * 9) / 5 + 32, on tenths of a degree (exact for
\* the multiples of half a degree the model uses)
toF(c) == (c * 9) \div 5 + 320

\* mutant: the request asks the provider for the selected unit system
requestParamsWithUnit(city, un) ==
  [latitude |-> coords[city].lat,
   longitude |-> coords[city].lon,
   current |-> "temperature_2m,relative_humidity_2m,apparent_temperature,weather_code,wind_speed_10m",
   hourly |-> "temperature_2m,weather_code,wind_speed_10m,relative_humidity_2m",
   timezone |-> "auto",
   forecast_hours |-> "24",
   temperature_unit |-> IF un = "f" THEN "fahrenheit" ELSE "celsius"]

\* the URLSearchParams fetchWeather builds for the city record getCity
\* returned, while STATE.weather.units is un
requestParams(city, un) ==
  [latitude |-> coords[city].lat,
   longitude |-> coords[city].lon,
   current |-> "temperature_2m,relative_humidity_2m,apparent_temperature,weather_code,wind_speed_10m",
   hourly |-> "temperature_2m,weather_code,wind_speed_10m,relative_humidity_2m",
   timezone |-> "auto",
   forecast_hours |-> "24"]

\* mutant: code 48 (depositing rime fog) is missing from the fog case
codeToIconWithout48(code) ==
  LET c == code IN
  IF c = NaN THEN [icon |-> "ri-question-line", label |-> "Unknown"]
  ELSE IF c = 0 THEN [icon |-> "ri-sun-line", label |-> "Clear sky"]
  ELSE IF c = 1 THEN [icon |-> "ri-sun-cloudy-line", label |-> "Mainly clear"]
  ELSE IF c = 2 THEN [icon |-> "ri-cloudy-2-line", label |-> "Partly cloudy"]
  ELSE IF c = 3 THEN [icon |-> "ri-cloudy-line", label |-> "Overcast"]
  ELSE IF c = 45 THEN [icon |-> "ri-mist-line", label |-> "Fog"]
  ELSE IF c = 51 \/ c = 53 \/ c = 55 THEN [icon |-> "ri-drizzle-line", label |-> "Drizzle"]
  ELSE IF c = 56 \/ c = 57 THEN [icon |-> "ri-snowy-line", label |-> "Freezing drizzle"]
  ELSE IF c = 61 \/ c = 63 \/ c = 65 THEN [icon |-> "ri-rainy-line", label |-> "Rain"]
  ELSE IF c = 66 \/ c = 67 THEN [icon |-> "ri-snowy-line", label |-> "Freezing rain"]
  ELSE IF c = 71 \/ c = 73 \/ c = 75 THEN [icon |-> "ri-snowy-line", label |-> "Snow"]
  ELSE IF c = 77 THEN [icon |-> "ri-snowy-line", label |-> "Snow grains"]
  ELSE IF c = 80 \/ c = 81 \/ c = 82 THEN [icon |-> "ri-showers-line", label |-> "Showers"]
  ELSE IF c = 95 THEN [icon |-> "ri-thunderstorms-line", label |-> "Thunderstorm"]
  ELSE IF c = 96 \/ c = 99 THEN [icon |-> "ri-thunderstorms-line", label |-> "Thunderstorm + hail"]
  ELSE [icon |-> "ri-cloud-windy-line", label |-> "Variable"]

\* codeToIcon: c = Number(code); the cases in source order
codeToIcon(code) ==
  LET c == code IN
  IF c = NaN THEN [icon |-> "ri-question-line", label |-> "Unknown"]
  ELSE IF c = 0 THEN [icon |-> "ri-sun-line", label |-> "Clear sky"]
  ELSE IF c = 1 THEN [icon |-> "ri-sun-cloudy-line", label |-> "Mainly clear"]
  ELSE IF c = 2 THEN [icon |-> "ri-cloudy-2-line", label |-> "Partly cloudy"]
  ELSE IF c = 3 THEN [icon |-> "ri-cloudy-line", label |-> "Overcast"]
  ELSE IF c = 45 \/ c = 48 THEN [icon |-> "ri-mist-line", label |-> "Fog"]
  ELSE IF c = 51 \/ c = 53 \/ c = 55 THEN [icon |-> "ri-drizzle-line", label |-> "Drizzle"]
  ELSE IF c = 56 \/ c = 57 THEN [icon |-> "ri-snowy-line", label |-> "Freezing drizzle"]
  ELSE IF c = 61 \/ c = 63 \/ c = 65 THEN [icon |-> "ri-rainy-line", label |-> "Rain"]
  ELSE IF c = 66 \/ c = 67 THEN [icon |-> "ri-snowy-line", label |-> "Freezing rain"]
  ELSE IF c = 71 \/ c = 73 \/ c = 75 THEN [icon |-> "ri-snowy-line", label |-> "Snow"]
  ELSE IF c = 77 THEN [icon |-> "ri-snowy-line", label |-> "Snow grains"]
  ELSE IF c = 80 \/ c = 81 \/ c = 82 THEN [icon |-> "ri-showers-line", label |-> "Showers"]
  ELSE IF c = 95 THEN [icon |-> "ri-thunderstorms-line", label |-> "Thunderstorm"]
  ELSE IF c = 96 \/ c = 99 THEN [icon |-> "ri-thunderstorms-line", label |-> "Thunderstorm + hail"]
  ELSE [icon |-> "ri-cloud-windy-line", label |-> "Variable"]

\* formatNumber(n, 0) of a non-negative number given in tenths
formatNumber(tenths) == (tenths + 5) \div 10

\* formatNumber(kmh * 0.621371, 0)
formatMph(kmh) == (kmh * 621371 + 500000) \div 1000000

Min(a, b) == IF a <= b THEN a ELSE b

\* mutant: no cap of 8 rows
renderForecastUncapped(h, un) ==
  LET times == h.time
      tempsC == h.temperature_2m
      codes == h.weather_code
      winds == h.wind_speed_10m
      hums == h.relative_humidity_2m
      count == Min(Len(times), Min(Len(tempsC), Len(codes)))
  IN
  [i \in 1..count |->
     [time |-> times[i],
      temp |-> formatNumber(IF un = "f" THEN toF(tempsC[i]) ELSE tempsC[i]),
      label |-> codeToIcon(codes[i]).label,
      wind |-> IF i > Len(winds) THEN Dash
               ELSE IF un = "f" THEN formatMph(winds[i]) ELSE winds[i],
      hum |-> IF i > Len(hums) THEN Dash ELSE hums[i]]]

\* the forecast part of renderWeather: the rows built from data.hourly.
\* winds[i] and hums[i] are read whatever the length of those arrays; past
\* their end they are undefined, which formatNumber renders as a dash
renderForecast(h, un) ==
  LET times == h.time
      tempsC == h.temperature_2m
      codes == h.weather_code
      winds == h.wind_speed_10m
      hums == h.relative_humidity_2m
      count == Min(8, Min(Len(times), Min(Len(tempsC), Len(codes))))
  IN
  [i \in 1..count |->
     [time |-> times[i],
      temp |-> formatNumber(IF un = "f" THEN toF(tempsC[i]) ELSE tempsC[i]),
      label |-> codeToIcon(codes[i]).label,
      wind |-> IF i > Len(winds) THEN Dash
               ELSE IF un = "f" THEN formatMph(winds[i]) ELSE winds[i],
      hum |-> IF i > Len(hums) THEN Dash ELSE hums[i]]]

\* fromCache, for the given selection and clock
fromCache(c, cid, un, t) ==
  LET key == buildKey(cid, un) IN
  IF key \notin DOMAIN c THEN NoData
  ELSE IF c[key].ts = 0 \/ t - c[key].ts > cacheTtlMs THEN NoData
  ELSE c[key].data

\* mutant: the cache is consulted even when force is set
cacheCheckIgnoringForce(force, c, cid, un, t) == fromCache(c, cid, un, t)

\* fetchWeather's cache check: if (!force) { const cached = fromCache(); ... }
cacheCheck(force, c, cid, un, t) ==
  IF ~force THEN fromCache(c, cid, un, t) ELSE NoData

\* STATE.weather.cache[key] = { ts: nowMs(), data }
cacheSet(c, cid, un, t, data) ==
  LET key == buildKey(cid, un) IN
  [k \in (DOMAIN c) \cup {key} |-> IF k = key THEN [ts |-> t, data |-> data] ELSE c[k]]

\* localStorage.getItem of a key that was never set
NoItem == [item |-> FALSE, text |-> <<>>]

\* JSON.stringify(cache): the text lists one member per key, each with the
\* entry's ts and data
RECURSIVE members(_)
members(c) ==
  IF DOMAIN c = {} THEN <<>>
  ELSE LET k == CHOOSE k \in DOMAIN c : TRUE IN
       <<[key |-> k, ts |-> c[k].ts, data |-> c[k].data]>>
         \o members([j \in (DOMAIN c) \ {k} |-> c[j]])

stringify(c) == [item |-> TRUE, text |-> members(c)]

\* JSON.parse of such a text: the object with one property per member
parse(text) ==
  [k \in {text[i].key : i \in 1..Len(text)} |->
     LET i == CHOOSE i \in 1..Len(text) : text[i].key = k IN
     [ts |-> text[i].ts, data |-> text[i].data]]

\* safeJsonParse(localStorage.getItem(key), {}) as loadPersistedState uses
\* its result: an absent item parses to null, which leaves the initial {}
safeJsonParse(str, fallback) ==
  IF str.item THEN parse(str.text) ELSE fallback

\* persistWeatherCache: setItem(JSON.stringify(cache)); a throwing setItem
\* (quota) is swallowed and leaves the stored item as it was
persistWeatherCache(c, old, quota) == IF quota THEN old ELSE stringify(c)

\* renderWeather(data, {source}): reads the selection at render time
renderWeather(data, source, cid, un) ==
  [kind |-> "weather", city |-> getCity(cid), units |-> un, data |-> data, source |-> source,
   temp |-> IF un = "f" THEN toF(data.temp) ELSE data.temp]

renderSkeleton == [kind |-> "skeleton", city |-> "", units |-> "", data |-> NoData, source |-> ""]

renderError(cid) ==
  [kind |-> "error", city |-> getCity(cid), units |-> "", data |-> NoData, source |-> ""]

(* ------------------------------------------------------------------ *)
(* Initial state: first visit (empty localStorage), initWeatherOverlay  *)
(* has run with the overlay hidden                                      *)
(* ------------------------------------------------------------------ *)
PeerInit ==
  /\ peerCache = <<>>
  /\ peerWrites = 0

CodeInit ==
  /\ wcode = 0
  /\ wicon = NoIcon

ForecastInit ==
  /\ hourly = NoHourly
  /\ forecast = [done |-> FALSE, rows |-> <<>>]

TempInit ==
  /\ tempC = 0
  /\ tempShown = NoTemp

OverlayInit ==
  /\ overlayStack = <<>>
  /\ shownLayers = {}
  /\ lockCount = 0
  /\ navOpen = FALSE
  /\ lastUi = "init"

\* STATE.news before initNews, on a page without news cards
NewsInit ==
  /\ newsCount = 0
  /\ news = [filter |-> "all", query |-> "", page |-> 1]
  /\ newsView = NoView
  /\ storedNewsPage = NoPage
  /\ lastNews = "init"

\* STATE.gallery on a page without gallery cards (initGallery returns)
GalleryInit ==
  /\ galleryTotal = 0
  /\ gallery = [filter |-> "all", currentIndex |-> 0]
  /\ galleryHidden = {}
  /\ lightbox = NoLightbox
  /\ indexBefore = 0
  /\ lastGallery = "init"

\* the shop page after the script ran: const cart = [], renderCart()
CartInit ==
  /\ cart = <<>>
  /\ cartShown = EmptyCartShown
  /\ cartPanelOpen = FALSE
  /\ adds = 0
  /\ lastClick = [kind |-> "init", id |-> 0]

RestInit ==
  /\ TempInit
  /\ OverlayInit
  /\ NewsInit
  /\ GalleryInit
  /\ CartInit

OthersInit ==
  /\ PeerInit
  /\ CodeInit
  /\ ForecastInit
  /\ RestInit

WidgetInitButUnits ==
  /\ cityId = cities[1]
  /\ cache = <<>>
  /\ isLoading = FALSE
  /\ lastError = NoError
  /\ storedCache = NoItem
  /\ storedUnits = "null"
  /\ storedCity = "null"
  /\ inflight = <<>>
  /\ shown = [kind |-> "none", city |-> "", units |-> "", data |-> NoData, source |-> ""]
  /\ now = 1
  /\ ticks = 0
  /\ requests = 0
  /\ live = NoLive
  /\ lastStep = [kind |-> "init", force |-> FALSE]

WidgetInit ==
  /\ units = "c"
  /\ WidgetInitButUnits

Init ==
  /\ OthersInit
  /\ WidgetInit

(* ------------------------------------------------------------------ *)
(* renderWeatherFromCacheOrFetch({force}) up to its first real suspend, *)
(* run with the selection (cid, un) the handler has just stored         *)
(* ------------------------------------------------------------------ *)
\* the body after the guard: isLoading = true; lastError = null;
\* renderSkeleton(); await fetchWeather({force}) ...
acceptInvocation(force, cid, un) ==
  LET cached == cacheCheck(force, cache, cid, un, now)
      key == buildKey(cid, un)
  IN
  IF getCity(cid) = NoCity
  THEN \* if (!city) throw new Error("City not found"): caught at once
       /\ lastStep' = [kind |-> "fail", force |-> force]
       /\ isLoading' = FALSE
       /\ lastError' = ErrCity
       /\ shown' = renderError(cid)
       /\ UNCHANGED <<cache, storedCache, inflight, requests, live>>
  ELSE IF cached # NoData
  THEN \* cache hit: render, dispatch, finally isLoading = false
       /\ lastStep' = [kind |-> "cache", force |-> force]
       /\ isLoading' = FALSE
       /\ lastError' = NoError
       /\ shown' = renderWeather(cached, "cache", cid, un)
       /\ UNCHANGED <<cache, storedCache, inflight, requests, live>>
  ELSE \* await fetch(url): the request carries getCity(cityId)'s coordinates
       /\ requests < MaxRequests
       /\ requests' = requests + 1
       /\ lastStep' = [kind |-> "request", force |-> force]
       /\ isLoading' = TRUE
       /\ lastError' = NoError
       /\ shown' = renderSkeleton
       /\ inflight' = Append(inflight,
            [city |-> getCity(cid), params |-> requestParams(getCity(cid), un),
             force |-> force, stage |-> "fetch", key |-> key, at |-> now,
             stale |-> (key \in DOMAIN cache /\ now - cache[key].ts > cacheTtlMs)])
       /\ UNCHANGED <<cache, storedCache, live>>

\* mutant: the isLoading guard is missing
renderWithoutGuard(force, cid, un) == acceptInvocation(force, cid, un)

renderWeatherFromCacheOrFetch(force, cid, un) ==
  IF isLoading
  THEN \* if (STATE.weather.isLoading) return;
       /\ lastStep' = [kind |-> "ignored", force |-> force]
       /\ UNCHANGED <<cache, isLoading, lastError, storedCache, inflight, shown, requests, live>>
  ELSE acceptInvocation(force, cid, un)

\* persistWeatherSettings
persistWeatherSettings(cid, un) ==
  /\ storedUnits' = un
  /\ storedCity' = IF cid # "" THEN cid ELSE storedCity

(* ------------------------------------------------------------------ *)
(* UI event handlers                                                    *)
(* ------------------------------------------------------------------ *)

\* citySelect "change"
ChangeCity ==
  \E id \in CityOptions \ {cityId} :
    /\ cityId' = id
    /\ persistWeatherSettings(id, units)
    /\ renderWeatherFromCacheOrFetch(FALSE, id, units)
    /\ UNCHANGED <<units, now, ticks, others>>

\* unit radio "change" (fires on the input that became checked)
ChangeUnits ==
  \E v \in Units \ {units} :
    /\ units' = v
    /\ persistWeatherSettings(cityId, v)
    /\ renderWeatherFromCacheOrFetch(FALSE, cityId, v)
    /\ UNCHANGED <<cityId, now, ticks, others>>

\* "kurdistan:overlay:open" for the weather overlay
OverlayOpen ==
  /\ renderWeatherFromCacheOrFetch(FALSE, cityId, units)
  /\ UNCHANGED <<cityId, units, storedUnits, storedCity, now, ticks, others>>

\* refreshBtn "click" / window.__kurdistanWeatherRefresh
Refresh ==
  /\ renderWeatherFromCacheOrFetch(TRUE, cityId, units)
  /\ UNCHANGED <<cityId, units, storedUnits, storedCity, now, ticks, others>>

(* ------------------------------------------------------------------ *)
(* Settlement of the awaits of a suspended fetchWeather call            *)
(* ------------------------------------------------------------------ *)
RemoveAt(s, i) == [j \in 1..(Len(s) - 1) |-> IF j < i THEN s[j] ELSE s[j + 1]]

\* mutant: a failure drops the entry of the current key
FailEvicting(i, msg) ==
  /\ lastError' = msg
  /\ shown' = renderError(cityId)
  /\ isLoading' = FALSE
  /\ inflight' = RemoveAt(inflight, i)
  /\ cache' = [k \in (DOMAIN cache) \ {buildKey(cityId, units)} |-> cache[k]]
  /\ storedCache' = stringify(cache')
  /\ lastStep' = [kind |-> "fail", force |-> inflight[i].force]
  /\ UNCHANGED <<cityId, units, storedUnits, storedCity, now, ticks, others, requests, live>>

\* mutant: isLoading is reset on the success path only (no finally)
FailKeepsLoading(i, msg) ==
  /\ lastError' = msg
  /\ shown' = renderError(cityId)
  /\ inflight' = RemoveAt(inflight, i)
  /\ lastStep' = [kind |-> "fail", force |-> inflight[i].force]
  /\ UNCHANGED <<cityId, units, cache, isLoading, storedCache, storedUnits, storedCity, now,
                 ticks, others, requests, live>>

\* mutant: a failed request is re-issued from the catch block
FailRetries(i, msg) ==
  /\ requests < MaxRequests
  /\ requests' = requests + 1
  /\ lastError' = msg
  /\ shown' = renderError(cityId)
  /\ inflight' = [inflight EXCEPT ![i].stage = "fetch"]
  /\ lastStep' = [kind |-> "fail", force |-> inflight[i].force]
  /\ UNCHANGED <<cityId, units, cache, isLoading, storedCache, storedUnits, storedCity, now,
                 ticks, others, live>>

\* catch (err) { lastError = err.message; ... } finally { isLoading = false }
Fail(i, msg) ==
  /\ lastError' = msg
  /\ shown' = renderError(cityId)
  /\ isLoading' = FALSE
  /\ inflight' = RemoveAt(inflight, i)
  /\ lastStep' = [kind |-> "fail", force |-> inflight[i].force]
  /\ UNCHANGED <<cityId, units, cache, storedCache, storedUnits, storedCity, now, ticks, others, requests, live>>

\* fetch() rejects (transport error)
FetchReject ==
  \E i \in 1..Len(inflight) :
    /\ inflight[i].stage = "fetch"
    /\ Fail(i, ErrTransport)

\* fetch() resolves with !res.ok
FetchStatus ==
  \E i \in 1..Len(inflight) :
    /\ inflight[i].stage = "fetch"
    /\ Fail(i, ErrStatus)

\* fetch() resolves with res.ok: await res.json()
FetchOk ==
  \E i \in 1..Len(inflight) :
    /\ inflight[i].stage = "fetch"
    /\ inflight' = [inflight EXCEPT ![i].stage = "json"]
    /\ lastStep' = [kind |-> "net", force |-> inflight[i].force]
    /\ UNCHANGED <<cityId, units, cache, isLoading, lastError, storedCache, storedUnits,
                   storedCity, shown, now, ticks, others, requests, live>>

\* res.json() rejects (unparsable body)
JsonReject ==
  \E i \in 1..Len(inflight) :
    /\ inflight[i].stage = "json"
    /\ Fail(i, ErrParse)

\* mutant: persistWeatherCache has no try/catch, so a quota error reaches
\* the catch block of renderWeatherFromCacheOrFetch
resolveJsonPersistThrows(i, quota) ==
  LET r == inflight[i]
      json == Response(r.city, now)
  IN
  /\ r.stage = "json"
  /\ cache' = cacheSet(cache, cityId, units, now, json)
  /\ storedCache' = persistWeatherCache(cache', storedCache, quota)
  /\ shown' = IF quota THEN renderError(cityId) ELSE renderWeather(json, "live", cityId, units)
  /\ lastError' = IF quota THEN "QuotaExceededError" ELSE lastError
  /\ isLoading' = FALSE
  /\ inflight' = RemoveAt(inflight, i)
  /\ live' = IF quota THEN live
             ELSE [key |-> r.key, force |-> r.force, stale |-> r.stale, data |-> json, t |-> now]
  /\ lastStep' = [kind |-> IF quota THEN "fail" ELSE "ok", force |-> r.force]
  /\ UNCHANGED <<cityId, units, storedUnits, storedCity, now, ticks, others, requests>>

\* res.json() resolves: cacheSet(json); return live; renderWeather; finally.
\* quota: localStorage.setItem throws inside persistWeatherCache
resolveJson(i, quota) ==
  LET r == inflight[i]
      json == Response(r.city, now)
  IN
  /\ r.stage = "json"
  /\ cache' = cacheSet(cache, cityId, units, now, json)
  /\ storedCache' = persistWeatherCache(cache', storedCache, quota)
  /\ shown' = renderWeather(json, "live", cityId, units)
  /\ isLoading' = FALSE
  /\ inflight' = RemoveAt(inflight, i)
  /\ live' = [key |-> r.key, force |-> r.force, stale |-> r.stale, data |-> json, t |-> now]
  /\ lastStep' = [kind |-> "ok", force |-> r.force]
  /\ UNCHANGED <<cityId, units, lastError, storedUnits, storedCity, now, ticks, others, requests>>

JsonOk ==
  \E i \in 1..Len(inflight), quota \in BOOLEAN : resolveJson(i, quota)

\* the clock advances
Tick ==
  \E d \in TickSteps :
    /\ ticks < MaxTicks
    /\ now' = now + d
    /\ ticks' = ticks + 1
    /\ lastStep' = [kind |-> "tick", force |-> FALSE]
    /\ UNCHANGED <<cityId, units, cache, isLoading, lastError, storedCache, storedUnits,
                   storedCity, inflight, shown, requests, live, others>>

Next ==
  \/ ChangeCity
  \/ ChangeUnits
  \/ OverlayOpen
  \/ Refresh
  \/ FetchReject
  \/ FetchStatus
  \/ FetchOk
  \/ JsonReject
  \/ JsonOk
  \/ Tick

Spec == Init /\ [][Next]_vars

\* the network answers every request: a pending fetch() settles, and so
\* does a pending res.json(); the user is under no obligation to act
NetworkAnswers ==
  /\ WF_vars(FetchReject \/ FetchStatus \/ FetchOk)
  /\ WF_vars(JsonReject \/ JsonOk)

SpecLive == Init /\ [][Next]_vars /\ NetworkAnswers

(* ------------------------------------------------------------------ *)
(* Page reload: the running page (and its pending fetch) is discarded,   *)
(* loadPersistedState and initWeatherOverlay run again                  *)
(* ------------------------------------------------------------------ *)

\* mutant: the cache item is not read back at startup
loadWithoutCache(su, sc, sraw) ==
  [units |-> IF su \in Units THEN su ELSE "c",
   cityId |-> IF sc \notin {"null", ""} THEN sc ELSE cities[1],
   cache |-> <<>>]

\* loadPersistedState (weather part) followed by line 1143: the in-memory
\* selection and cache after startup with the given stored items
loadPersistedState(su, sc, sraw) ==
  [units |-> IF su \in Units THEN su ELSE "c",
   cityId |-> IF sc \notin {"null", ""} THEN sc ELSE cities[1],
   cache |-> safeJsonParse(sraw, <<>>)]

Reload ==
  LET st == loadPersistedState(storedUnits, storedCity, storedCache) IN
  /\ units' = st.units
  /\ cityId' = st.cityId
  /\ cache' = st.cache
  /\ isLoading' = FALSE
  /\ lastError' = NoError
  /\ inflight' = <<>>
  /\ shown' = [kind |-> "none", city |-> "", units |-> "", data |-> NoData, source |-> ""]
  /\ lastStep' = [kind |-> "reload", force |-> FALSE]
  /\ UNCHANGED <<storedCache, storedUnits, storedCity, now, ticks, others, requests, live>>

\* res.json() resolves and localStorage accepts the write
JsonOkPersisted ==
  \E i \in 1..Len(inflight) : resolveJson(i, FALSE)

NextReload ==
  \/ ChangeCity
  \/ ChangeUnits
  \/ OverlayOpen
  \/ Refresh
  \/ FetchReject
  \/ FetchStatus
  \/ FetchOk
  \/ JsonReject
  \/ JsonOkPersisted
  \/ Tick
  \/ Reload

(* ------------------------------------------------------------------ *)
(* A second instance of the page (another tab) on the same localStorage *)
(* ------------------------------------------------------------------ *)

\* the other tab starts: its loadPersistedState reads the shared item
PeerLoad ==
  /\ peerCache' = safeJsonParse(storedCache, <<>>)
  /\ peerCache' # peerCache
  /\ UNCHANGED <<cityId, units, cache, isLoading, lastError, storedCache, storedUnits,
                 storedCity, inflight, shown, now, ticks, requests, live, peerWrites,
                 wcode, wicon, hourly, forecast, rest>>
  /\ lastStep' = [kind |-> "peer", force |-> FALSE]

\* a fetch of the other tab succeeds for its selection (c, u): its cacheSet
\* writes its own mapping and persists it
PeerFetchOk ==
  \E c \in CityOptions, u \in Units, quota \in BOOLEAN :
    /\ peerWrites < MaxPeerWrites
    /\ peerWrites' = peerWrites + 1
    /\ peerCache' = cacheSet(peerCache, c, u, now, Response(getCity(c), now))
    /\ storedCache' = persistWeatherCache(peerCache', storedCache, quota)
    /\ lastStep' = [kind |-> "peer", force |-> FALSE]
    /\ UNCHANGED <<cityId, units, cache, isLoading, lastError, storedUnits, storedCity,
                   inflight, shown, now, ticks, requests, live, wcode, wicon, hourly, forecast,
                   rest>>

NextTabs ==
  \/ ChangeCity
  \/ ChangeUnits
  \/ OverlayOpen
  \/ Refresh
  \/ FetchReject
  \/ FetchStatus
  \/ FetchOk
  \/ JsonReject
  \/ JsonOk
  \/ Tick
  \/ PeerLoad
  \/ PeerFetchOk

\* two tabs sharing one localStorage
SpecTabs == Init /\ [][NextTabs]_vars

\* the widget across reloads, with a localStorage that never refuses a write
SpecReload == Init /\ [][NextReload]_vars

(* ------------------------------------------------------------------ *)
(* Start on a localStorage left by an earlier visit or another version  *)
(* of the page                                                          *)
(* ------------------------------------------------------------------ *)

\* an id that is not in APP.cities (a city of an earlier registry)
UnknownCity == "amedi"

\* what getItem(kurdistan_weather_units) may return: nothing, a valid
\* unit, something else
StoredUnitsValues == {"null", "f", "k"}

\* what getItem(kurdistan_last_city) may return: nothing, a registered
\* id, an unregistered id
StoredCityValues == {"null", cities[2], UnknownCity}

InitStored ==
  /\ OthersInit
  /\ storedUnits \in StoredUnitsValues
  /\ storedCity \in StoredCityValues
  /\ storedCache = NoItem
  /\ units = loadPersistedState(storedUnits, storedCity, storedCache).units
  /\ cityId = loadPersistedState(storedUnits, storedCity, storedCache).cityId
  /\ cache = loadPersistedState(storedUnits, storedCity, storedCache).cache
  /\ isLoading = FALSE
  /\ lastError = NoError
  /\ inflight = <<>>
  /\ shown = [kind |-> "none", city |-> "", units |-> "", data |-> NoData, source |-> ""]
  /\ now = 1
  /\ ticks = 0
  /\ requests = 0
  /\ live = NoLive
  /\ lastStep = [kind |-> "reload", force |-> FALSE]

SpecStored == InitStored /\ [][NextReload]_vars

(* ------------------------------------------------------------------ *)
(* codeToIcon on its own                                                *)
(* ------------------------------------------------------------------ *)

\* weather codes tried: around and inside the WMO table, far outside it,
\* and a non-number
Codes == (-1 .. MaxCode) \cup {12345, NaN}

InitCodes ==
  /\ WidgetInit
  /\ PeerInit
  /\ ForecastInit
  /\ RestInit
  /\ wcode \in Codes
  /\ wicon = NoIcon

\* const { icon, label } = codeToIcon(wcode)
CodeToIcon ==
  /\ wicon = NoIcon
  /\ wicon' = codeToIcon(wcode)
  /\ UNCHANGED <<cityId, units, cache, isLoading, lastError, storedCache, storedUnits,
                 storedCity, inflight, shown, now, ticks, requests, live, lastStep,
                 peerCache, peerWrites, wcode, hourly, forecast, rest>>

NextCodes == CodeToIcon

SpecCodes == InitCodes /\ [][NextCodes]_vars

(* ------------------------------------------------------------------ *)
(* The forecast card on its own                                         *)
(* ------------------------------------------------------------------ *)

\* lengths tried for each hourly array
HourlyLens == {0, 2, 8, 9, 20, 24, MaxHours}

\* hourly arrays of the given lengths; entry i of each array is the value
\* for hour i (temperatures in tenths of a degree C, wind in km/h)
Hourly(nt, nc, nk, nw, nh) ==
  [time |-> [i \in 1..nt |-> i],
   temperature_2m |-> [i \in 1..nc |-> 100 + 5 * i],
   weather_code |-> [i \in 1..nk |-> i % 4],
   wind_speed_10m |-> [i \in 1..nw |-> 10 + i],
   relative_humidity_2m |-> [i \in 1..nh |-> 40 + i]]

InitForecast ==
  /\ units \in Units
  /\ WidgetInitButUnits
  /\ PeerInit
  /\ CodeInit
  /\ RestInit
  /\ \E nt, nc, nk, nw, nh \in HourlyLens : hourly = Hourly(nt, nc, nk, nw, nh)
  /\ forecast = [done |-> FALSE, rows |-> <<>>]

\* renderWeather fills the forecast card from data.hourly
RenderForecast ==
  /\ ~forecast.done
  /\ forecast' = [done |-> TRUE, rows |-> renderForecast(hourly, units)]
  /\ UNCHANGED <<cityId, units, cache, isLoading, lastError, storedCache, storedUnits,
                 storedCity, inflight, shown, now, ticks, requests, live, lastStep,
                 peerCache, peerWrites, wcode, wicon, hourly, rest>>

NextForecast == RenderForecast

SpecForecast == InitForecast /\ [][NextForecast]_vars

(* ------------------------------------------------------------------ *)
(* The temperature conversion on its own                                *)
(* ------------------------------------------------------------------ *)

\* the rest of the page while another part is looked at on its own
WeatherSideInit ==
  /\ WidgetInitButUnits
  /\ PeerInit
  /\ CodeInit
  /\ ForecastInit

InitTemp ==
  /\ units \in Units
  /\ WeatherSideInit
  /\ OverlayInit
  /\ NewsInit
  /\ GalleryInit
  /\ CartInit
  \* every half degree from -MaxHalfDegrees/2 to MaxHalfDegrees/2, in tenths
  /\ tempC \in {5 * k : k \in (0 - MaxHalfDegrees) .. MaxHalfDegrees}
  /\ tempShown = NoTemp

\* mutant: the conversion is applied for metric units
displayTempSwapped(c, un) == IF un = "c" THEN toF(c) ELSE c

\* const temp = units === "f" && tempC !== null ? toF(tempC) : tempC
\* (likewise feels, and tempVal of a forecast row)
displayTemp(c, un) == IF un = "f" THEN toF(c) ELSE c

RenderTemp ==
  /\ ~tempShown.done
  /\ tempShown' = [done |-> TRUE, value |-> displayTemp(tempC, units)]
  /\ UNCHANGED <<weatherSide, tempC, overlayVars, newsVars, galleryVars, cartVars>>

NextTemp == RenderTemp

SpecTemp == InitTemp /\ [][NextTemp]_vars

(* ------------------------------------------------------------------ *)
(* Overlays, modals, mobile navigation, body-scroll lock                *)
(* ------------------------------------------------------------------ *)

\* the overlays of the page other than the weather overlay (whose opening
\* also starts the weather widget), and a modal
Overlays == {"searchOverlay", "plannerOverlay"}
Modals == {"articleModal"}

\* disableBodyScroll.unlock: lockCount = Math.max(0, lockCount - 1)
unlock(n) == IF n - 1 > 0 THEN n - 1 ELSE 0

\* lockCount after closeMobileNav(), which unlocks only if the nav is shown
lockAfterNavClose == IF navOpen THEN unlock(lockCount) ELSE lockCount

\* overlayStack.findIndex((x) => x.el === el), 0 for -1
findIndex(stack, el) ==
  IF \E i \in 1..Len(stack) : stack[i].el = el
  THEN CHOOSE i \in 1..Len(stack) :
         stack[i].el = el /\ \A j \in 1..(i - 1) : stack[j].el # el
  ELSE 0

\* openOverlay / openModalDialog: no check whether el is already shown
openLayer(el, type) ==
  /\ Len(overlayStack) < MaxStack
  /\ navOpen' = FALSE
  /\ shownLayers' = shownLayers \cup {el}
  /\ lockCount' = lockAfterNavClose + 1
  /\ overlayStack' = Append(overlayStack, [el |-> el, type |-> type])

\* closeOverlay / closeModal from the state (stack, lock count) reached
\* so far in the handler: nothing if el is hidden; else the first stack
\* entry of el is spliced out, el is hidden, the lock is released once
closeLayer(el, lock) ==
  IF el \notin shownLayers
  THEN UNCHANGED <<overlayStack, shownLayers>> /\ lockCount' = lock
  ELSE /\ overlayStack' = LET idx == findIndex(overlayStack, el) IN
                          IF idx = 0 THEN overlayStack ELSE RemoveAt(overlayStack, idx)
       /\ shownLayers' = shownLayers \ {el}
       /\ lockCount' = unlock(lock)

\* closeTopOverlay
closeTopOverlay(lock) ==
  IF Len(overlayStack) = 0
  THEN UNCHANGED <<overlayStack, shownLayers>> /\ lockCount' = lock
  ELSE closeLayer(overlayStack[Len(overlayStack)].el, lock)

\* click on a [data-open] trigger, or KurdistanUI.openSearch / openPlanner
OpenOverlay ==
  \E el \in Overlays :
    /\ openLayer(el, "overlay")
    /\ lastUi' = "open"
    /\ UNCHANGED <<weatherSide, tempVars, newsVars, galleryVars, cartVars>>

\* click on a [data-open-modal] trigger
OpenModal ==
  \E el \in Modals :
    /\ openLayer(el, "modal")
    /\ lastUi' = "open"
    /\ UNCHANGED <<weatherSide, tempVars, newsVars, galleryVars, cartVars>>

\* click on the backdrop or the close button of a shown overlay
CloseOverlay ==
  \E el \in Overlays \cap shownLayers :
    /\ closeLayer(el, lockCount)
    /\ lastUi' = "close"
    /\ UNCHANGED <<weatherSide, tempVars, newsVars, galleryVars, cartVars, navOpen>>

\* click on the backdrop or the close button of a shown modal
CloseModal ==
  \E el \in Modals \cap shownLayers :
    /\ closeLayer(el, lockCount)
    /\ lastUi' = "close"
    /\ UNCHANGED <<weatherSide, tempVars, newsVars, galleryVars, cartVars, navOpen>>

\* keydown Escape
Escape ==
  /\ IF Len(overlayStack) > 0
     THEN closeTopOverlay(lockCount) /\ UNCHANGED navOpen
     ELSE /\ navOpen' = FALSE
          /\ lockCount' = lockAfterNavClose
          /\ UNCHANGED <<overlayStack, shownLayers>>
  /\ lastUi' = "escape"
  /\ UNCHANGED <<weatherSide, tempVars, newsVars, galleryVars, cartVars>>

\* click on the navigation toggle button
ToggleNav ==
  /\ IF navOpen
     THEN navOpen' = FALSE /\ lockCount' = unlock(lockCount)
     ELSE navOpen' = TRUE /\ lockCount' = lockCount + 1
  /\ lastUi' = "nav"
  /\ UNCHANGED <<weatherSide, tempVars, newsVars, galleryVars, cartVars, overlayStack, shownLayers>>

\* click on an in-page anchor: closeMobileNav(), then closeTopOverlay()
AnchorClick ==
  /\ navOpen' = FALSE
  /\ closeTopOverlay(lockAfterNavClose)
  /\ lastUi' = "anchor"
  /\ UNCHANGED <<weatherSide, tempVars, newsVars, galleryVars, cartVars>>

InitOverlays ==
  /\ units = "c"
  /\ WeatherSideInit
  /\ TempInit
  /\ OverlayInit
  /\ NewsInit
  /\ GalleryInit
  /\ CartInit

NextOverlays ==
  \/ OpenOverlay
  \/ OpenModal
  \/ CloseOverlay
  \/ CloseModal
  \/ Escape
  \/ ToggleNav
  \/ AnchorClick

SpecOverlays == InitOverlays /\ [][NextOverlays]_vars

(* ------------------------------------------------------------------ *)
(* The news list: filter, search and pagination                         *)
(* ------------------------------------------------------------------ *)

\* APP.news
perPage == 6
maxPage == 4

\* the largest number of news cards looked at
MaxNews == 31

\* data-category of card i: culture, nature, agriculture in turn
category(i) == <<"culture", "nature", "agriculture">>[(i % 3) + 1]

\* values of data-news-filter
NewsFilters == {"all", "culture", "nature"}

\* String.prototype.trim().toLowerCase() on what is typed into the search
\* field: nothing, blanks, " Erbil ", a word no card mentions
trimLower(q) ==
  CASE q = "  " -> ""
    [] q = " Erbil " -> "erbil"
    [] OTHER -> q

\* cat.includes(filter) on the categories above
includes(cat, f) == cat = f \/ (cat = "agriculture" /\ f = "culture")

\* the text of every second card mentions Erbil; no card mentions zzz
textIncludes(i, query) == query = "erbil" /\ i % 2 = 0

\* kurdistan_news_page as it may be found: absent, 0.5, 2.5, 7, not a number
PageRaws == {NoPage, 5, 25, 70, NaN}

\* the part of loadPersistedState that restores STATE.news.page
loadNewsPage(raw, page) ==
  LET pageNum == IF raw = NoPage THEN 0 ELSE raw
  IN IF pageNum # NaN /\ pageNum >= 10 THEN pageNum \div 10 ELSE page

Max(a, b) == IF a >= b THEN a ELSE b

clamp(n, lo, hi) == Min(hi, Max(lo, n))

\* STATE.news.items.filter(...) of apply: the matching cards, in page order
filtered(n, filter, query) ==
  LET ok(i) == /\ (filter = "all" \/ includes(category(i), filter))
               /\ (trimLower(query) = "" \/ textIncludes(i, trimLower(query)))
  IN SelectSeq([i \in 1..n |-> i], ok)

\* Array.prototype.slice(start, end), as the set of the cards it returns
slice(s, start, end) == {s[k] : k \in (start + 1)..Min(end, Len(s))}

\* mutant: apply leaves the page it was given unclamped
applyUnclamped(n, filter, query, page) ==
  LET f == filtered(n, filter, query)
      totalPages == Max(1, ((Len(f) + perPage - 1) \div perPage))
      start == (page - 1) * perPage
  IN /\ news' = [filter |-> filter, query |-> query, page |-> page]
     /\ storedNewsPage' = page * 10
     /\ newsView' = [visible |-> slice(f, start, start + perPage),
                     page |-> page, totalPages |-> totalPages,
                     prevDisabled |-> page <= 1,
                     nextDisabled |-> page >= totalPages]

\* apply of initNews, entered with STATE.news = [filter, query, page]
apply(n, filter, query, page) ==
  LET f == filtered(n, filter, query)
      totalPages == Max(1, ((Len(f) + perPage - 1) \div perPage))
      p == clamp(page, 1, Min(totalPages, maxPage))
      start == (p - 1) * perPage
  IN /\ news' = [filter |-> filter, query |-> query, page |-> p]
     /\ storedNewsPage' = p * 10
     /\ newsView' = [visible |-> slice(f, start, start + perPage),
                     page |-> p, totalPages |-> totalPages,
                     prevDisabled |-> p <= 1,
                     nextDisabled |-> p >= totalPages]

\* page load: loadPersistedState, then initNews with the filter button
\* the markup marks active (if any), then apply
NewsBoot ==
  /\ lastNews = "init"
  /\ \E f \in NewsFilters :
       apply(newsCount, f, news.query,
             loadNewsPage(storedNewsPage, news.page))
  /\ lastNews' = "boot"
  /\ UNCHANGED <<newsCount, weatherSide, tempVars, overlayVars, galleryVars, cartVars>>

\* click on a filter button
NewsFilterClick ==
  /\ lastNews # "init"
  /\ \E f \in NewsFilters : apply(newsCount, f, news.query, 1)
  /\ lastNews' = "filter"
  /\ UNCHANGED <<newsCount, weatherSide, tempVars, overlayVars, galleryVars, cartVars>>

\* doSearch: search button, Enter, or debounced input
NewsSearch ==
  /\ lastNews # "init"
  /\ \E q \in {"", "  ", " Erbil ", "zzz"} : apply(newsCount, news.filter, q, 1)
  /\ lastNews' = "search"
  /\ UNCHANGED <<newsCount, weatherSide, tempVars, overlayVars, galleryVars, cartVars>>

\* click on Prev (a disabled button fires no click)
NewsPrev ==
  /\ lastNews # "init"
  /\ ~newsView.prevDisabled
  /\ apply(newsCount, news.filter, news.query, news.page - 1)
  /\ lastNews' = "prev"
  /\ UNCHANGED <<newsCount, weatherSide, tempVars, overlayVars, galleryVars, cartVars>>

\* click on Next (a disabled button fires no click)
NewsNext ==
  /\ lastNews # "init"
  /\ ~newsView.nextDisabled
  /\ apply(newsCount, news.filter, news.query, news.page + 1)
  /\ lastNews' = "next"
  /\ UNCHANGED <<newsCount, weatherSide, tempVars, overlayVars, galleryVars, cartVars>>

InitNews ==
  /\ units = "c"
  /\ WeatherSideInit
  /\ TempInit
  /\ OverlayInit
  /\ GalleryInit
  /\ CartInit
  \* none, two pages, four full pages, one card more, the most looked at
  /\ newsCount \in {0, 7, 24, 25, MaxNews}
  /\ news = [filter |-> "all", query |-> "", page |-> 1]
  /\ newsView = NoView
  /\ storedNewsPage \in PageRaws
  /\ lastNews = "init"

NextNews ==
  \/ NewsBoot
  \/ NewsFilterClick
  \/ NewsSearch
  \/ NewsPrev
  \/ NewsNext

SpecNews == InitNews /\ [][NextNews]_vars

(* ------------------------------------------------------------------ *)
(* The gallery: tag filter and lightbox                                 *)
(* ------------------------------------------------------------------ *)

\* the largest number of gallery cards looked at
MaxGallery == 4

\* values of data-gallery-filter
GalleryFilters == {"all", "nature", "culture"}

\* getItemTag of card i (0-based): nature, culture, heritage in turn
getItemTag(i) == <<"nature", "culture", "heritage">>[(i % 3) + 1]

\* the gallery modal element
galleryModal == "galleryModal"

\* arguments of window.__kurdistanOpenGalleryModal, as Number(index) in
\* halves: NaN for a non-numeric one, 3 for 1.5, below and above the range
OpenArgs == {NaN} \cup (-2..(2 * MaxGallery + 2))

\* the cards applyFilter hides: f === "all" ? true : tag.includes(f)
hiddenBy(total, f) ==
  {i \in 0..(total - 1) : ~(f = "all" \/ getItemTag(i) = f)}

\* setModal(items[index], index, total): returns when there is no such item
setModal(idx, from) ==
  IF idx % 2 = 0
  THEN lightbox' = [item |-> idx \div 2, from |-> from]
  ELSE lightbox' = [lightbox EXCEPT !.from = from]

\* move(dir)
move(dir) ==
  IF galleryTotal = 0
  THEN UNCHANGED <<gallery, lightbox, indexBefore>>
  ELSE LET idx == (gallery.currentIndex + 2 * dir + 2 * galleryTotal)
                    % (2 * galleryTotal)
       IN /\ gallery' = [gallery EXCEPT !.currentIndex = idx]
          /\ indexBefore' = gallery.currentIndex
          /\ setModal(idx, lightbox.from)

\* window.__kurdistanOpenGalleryModal(index), index given as Number(index)
openGalleryModal(num, from) ==
  IF galleryTotal = 0
  THEN UNCHANGED <<gallery, lightbox, overlayVars>>
  ELSE LET idx == clamp(IF num = NaN THEN 0 ELSE num, 0, 2 * (galleryTotal - 1))
       IN /\ gallery' = [gallery EXCEPT !.currentIndex = idx]
          /\ setModal(idx, from)
          /\ openLayer(galleryModal, "modal")
          /\ lastUi' = "open"

\* click on a filter button of the grid (the lightbox is not in the way)
GalleryFilterClick ==
  /\ galleryTotal > 0
  /\ galleryModal \notin shownLayers
  /\ \E f \in GalleryFilters :
       /\ gallery' = [gallery EXCEPT !.filter = f]
       /\ galleryHidden' = hiddenBy(galleryTotal, f)
  /\ lastGallery' = "filter"
  /\ UNCHANGED <<galleryTotal, lightbox, indexBefore, weatherSide, tempVars, overlayVars, newsVars, cartVars>>

\* click on the open button of a card that is displayed
GalleryCardClick ==
  /\ galleryModal \notin shownLayers
  /\ \E i \in (0..(galleryTotal - 1)) \ galleryHidden :
       openGalleryModal(2 * i, "card")
  /\ lastGallery' = "card"
  /\ UNCHANGED <<galleryTotal, galleryHidden, indexBefore, weatherSide,
                 tempVars, newsVars, cartVars>>

\* a call of the exposed window.__kurdistanOpenGalleryModal
GalleryApiOpen ==
  /\ \E num \in OpenArgs : openGalleryModal(num, "api")
  /\ lastGallery' = "api"
  /\ UNCHANGED <<galleryTotal, galleryHidden, indexBefore, weatherSide,
                 tempVars, newsVars, cartVars>>

\* click on the next button, or ArrowRight, in the shown lightbox
GalleryNext ==
  /\ galleryModal \in shownLayers
  /\ move(1)
  /\ lastGallery' = "next"
  /\ UNCHANGED <<galleryTotal, galleryHidden, weatherSide, tempVars, overlayVars, newsVars, cartVars>>

\* click on the prev button, or ArrowLeft, in the shown lightbox
GalleryPrev ==
  /\ galleryModal \in shownLayers
  /\ move(-1)
  /\ lastGallery' = "prev"
  /\ UNCHANGED <<galleryTotal, galleryHidden, weatherSide, tempVars, overlayVars, newsVars, cartVars>>

\* click on the backdrop or the close button of the shown lightbox
GalleryClose ==
  /\ galleryModal \in shownLayers
  /\ closeLayer(galleryModal, lockCount)
  /\ lastUi' = "close"
  /\ lastGallery' = "close"
  /\ UNCHANGED <<galleryTotal, gallery, galleryHidden, lightbox, indexBefore,
                 navOpen, weatherSide, tempVars, newsVars, cartVars>>

\* the page after initGallery applied the filter the markup marks active
InitGallery ==
  /\ units = "c"
  /\ WeatherSideInit
  /\ TempInit
  /\ OverlayInit
  /\ NewsInit
  /\ CartInit
  /\ galleryTotal \in 0..MaxGallery
  /\ \E f \in GalleryFilters :
       /\ gallery = [filter |-> IF galleryTotal = 0 THEN "all" ELSE f,
                     currentIndex |-> 0]
       /\ galleryHidden = hiddenBy(galleryTotal, gallery.filter)
  /\ lightbox = NoLightbox
  /\ indexBefore = 0
  /\ lastGallery = "init"

NextGallery ==
  \/ GalleryFilterClick
  \/ GalleryCardClick
  \/ GalleryApiOpen
  \/ GalleryNext
  \/ GalleryPrev
  \/ GalleryClose

SpecGallery == InitGallery /\ [][NextGallery]_vars

(* ------------------------------------------------------------------ *)
(* The fruit shop (src/script.js): catalogue and cart                   *)
(* ------------------------------------------------------------------ *)

\* the largest number of Add clicks looked at
MaxAdds == 4

\* products: id and price (in cents)
products == <<[id |-> 1, price |-> 499], [id |-> 2, price |-> 650],
              [id |-> 3, price |-> 525], [id |-> 4, price |-> 375],
              [id |-> 5, price |-> 420], [id |-> 6, price |-> 790]>>

\* what a click in #product-grid can hit: an Add button (data-id 1..6), a
\* button with an unknown or missing data-id, or an element that is no button
ClickTargets ==
  [button : {TRUE}, id : (1..7) \cup {NaN}] \cup [button : {FALSE}, id : 1..2]

\* Array.prototype.find over lines with an id: the position, 0 for undefined
find(s, id) ==
  IF \E i \in 1..Len(s) : s[i].id = id
  THEN CHOOSE i \in 1..Len(s) : s[i].id = id /\ \A j \in 1..(i - 1) : s[j].id # id
  ELSE 0

\* Number.prototype.toFixed(2) of an amount in cents
toFixed2(cents) == [int |-> cents \div 100, frac |-> cents % 100]

\* cart.reduce((sum, item) => sum + item.qty * item.price, 0)
RECURSIVE totalOf(_)
totalOf(c) ==
  IF Len(c) = 0 THEN 0
  ELSE totalOf(SubSeq(c, 1, Len(c) - 1)) + c[Len(c)].qty * c[Len(c)].price

\* cart.reduce((sum, item) => sum + item.qty, 0)
RECURSIVE countOf(_)
countOf(c) ==
  IF Len(c) = 0 THEN 0
  ELSE countOf(SubSeq(c, 1, Len(c) - 1)) + c[Len(c)].qty

\* mutant: the badge counts the lines of the cart
renderCartCountingLines(c) ==
  IF Len(c) = 0
  THEN EmptyCartShown
  ELSE [lines |-> [i \in 1..Len(c) |->
                     [id |-> c[i].id, qty |-> c[i].qty,
                      amount |-> toFixed2(c[i].qty * c[i].price)]],
        total |-> toFixed2(totalOf(c)),
        count |-> Len(c)]

\* renderCart
renderCart(c) ==
  IF Len(c) = 0
  THEN EmptyCartShown
  ELSE [lines |-> [i \in 1..Len(c) |->
                     [id |-> c[i].id, qty |-> c[i].qty,
                      amount |-> toFixed2(c[i].qty * c[i].price)]],
        total |-> toFixed2(totalOf(c)),
        count |-> countOf(c)]

\* mutant: every add pushes a new line
addAlwaysPush(c, id) ==
  Append(c, [id |-> id, price |-> products[find(products, id)].price, qty |-> 1])

\* existingItem ? existingItem.qty += 1 : cart.push({ ...product, qty: 1 })
addToCart(c, id) ==
  IF find(c, id) # 0
  THEN [c EXCEPT ![find(c, id)].qty = @ + 1]
  ELSE Append(c, [id |-> id, price |-> products[find(products, id)].price, qty |-> 1])

\* click listener of #product-grid
GridClick ==
  \E target \in ClickTargets :
    IF ~target.button \/ find(products, target.id) = 0
    THEN /\ lastClick' = [kind |-> "miss", id |-> target.id]
         /\ UNCHANGED <<cart, cartShown, cartPanelOpen, adds, weatherSide, tempVars, overlayVars, newsVars, galleryVars>>
    ELSE /\ adds < MaxAdds
         /\ cart' = addToCart(cart, target.id)
         /\ cartShown' = renderCart(cart')
         /\ adds' = adds + 1
         /\ lastClick' = [kind |-> "add", id |-> target.id]
         /\ UNCHANGED <<cartPanelOpen, weatherSide, tempVars, overlayVars, newsVars, galleryVars>>

\* click on #cart-button
CartOpen ==
  /\ cartPanelOpen' = TRUE
  /\ lastClick' = [kind |-> "open", id |-> 0]
  /\ UNCHANGED <<cart, cartShown, adds, weatherSide, tempVars, overlayVars, newsVars, galleryVars>>

\* click on #close-cart
CartClose ==
  /\ cartPanelOpen' = FALSE
  /\ lastClick' = [kind |-> "close", id |-> 0]
  /\ UNCHANGED <<cart, cartShown, adds, weatherSide, tempVars, overlayVars, newsVars, galleryVars>>

InitCart ==
  /\ units = "c"
  /\ WeatherSideInit
  /\ RestInit

NextCart ==
  \/ GridClick
  \/ CartOpen
  \/ CartClose

SpecCart == InitCart /\ [][NextCart]_vars

(* ------------------------------------------------------------------ *)
(* A localStorage that may refuse any write (quota exceeded)            *)
(* ------------------------------------------------------------------ *)

\* persistWeatherSettings when its setItem number failAt throws: the
\* writes before it are done, the exception leaves the function
persistWeatherSettingsThrows(cid, un, failAt) ==
  /\ storedUnits' = IF failAt = 1 THEN storedUnits ELSE un
  /\ UNCHANGED storedCity

\* citySelect "change" with a throwing setItem: the exception leaves the
\* listener before renderWeatherFromCacheOrFetch is called
ChangeCityQuota ==
  \E id \in CityOptions \ {cityId}, failAt \in {1, 2} :
    /\ cityId' = id
    /\ persistWeatherSettingsThrows(id, units, failAt)
    /\ lastStep' = [kind |-> "throw", force |-> FALSE]
    /\ UNCHANGED <<units, cache, isLoading, lastError, storedCache, inflight, shown, now,
                   ticks, others, requests, live>>

\* unit radio "change" with a throwing setItem
ChangeUnitsQuota ==
  \E v \in Units \ {units}, failAt \in {1, 2} :
    /\ units' = v
    /\ persistWeatherSettingsThrows(cityId, v, failAt)
    /\ lastStep' = [kind |-> "throw", force |-> FALSE]
    /\ UNCHANGED <<cityId, cache, isLoading, lastError, storedCache, inflight, shown, now,
                   ticks, others, requests, live>>

NextQuota ==
  \/ ChangeCity
  \/ ChangeUnits
  \/ ChangeCityQuota
  \/ ChangeUnitsQuota
  \/ OverlayOpen
  \/ Refresh
  \/ FetchReject
  \/ FetchStatus
  \/ FetchOk
  \/ JsonReject
  \/ JsonOk
  \/ Tick
  \/ Reload

SpecQuota == Init /\ [][NextQuota]_vars

(* ------------------------------------------------------------------ *)
(* Properties                                                           *)
(* ------------------------------------------------------------------ *)

\* the selection's cache key
curKey == buildKey(cityId, units)

\* C1: after a non-forced fetch that was invoked for a selection has
\* completed successfully over the network at time live.t, a non-forced
\* fetch invoked for the same selection no later than live.t + cacheTtlMs
\* issues no request and returns source "cache" with the payload of the
\* first fetch.
C1_SecondFetchWithinTtlIsCacheHit ==
  (/\ lastStep.kind \in {"cache", "request"}
   /\ ~lastStep.force
   /\ live # NoLive
   /\ ~live.force
   /\ live.key = curKey
   /\ now - live.t <= cacheTtlMs)
  => (/\ lastStep.kind = "cache"
      /\ inflight = <<>>
      /\ shown.kind = "weather"
      /\ shown.source = "cache"
      /\ shown.data = live.data)

\* C2: every cache entry stored under the key of (L, U) holds a payload
\* that was fetched for location L, and a successful network fetch leaves
\* its payload, stamped with the current time, under the key of the
\* selection it was invoked for.
C2_EntryUnderKeyOfItsRequest ==
  /\ \A c \in CityOptions, u \in Units :
       buildKey(c, u) \in DOMAIN cache => cache[buildKey(c, u)].data.loc = getCity(c)
  /\ lastStep.kind = "ok" =>
       (live.key \in DOMAIN cache /\ cache[live.key] = [ts |-> now, data |-> live.data])

\* C3: the result of a completed network fetch is rendered only when the
\* selection still equals the one the request was issued for, so the
\* weather shown under a city is always a payload fetched for that city.
C3_LateResponseNotRendered ==
  /\ (lastStep.kind = "ok" /\ shown.kind = "weather") => live.key = curKey
  /\ shown.kind = "weather" => shown.data.loc = shown.city

\* C4: at most one network request is in flight at any time, and an
\* invocation of renderWeatherFromCacheOrFetch made while isLoading is true
\* is ignored: it issues no request and changes neither the cache, the
\* persisted cache, nor the request in flight.
C4_SingleFlight ==
  [][/\ Len(inflight') <= 1
     /\ isLoading' = (Len(inflight') = 1)
     /\ (isLoading /\ lastStep'.kind \in UiKinds) =>
          (/\ lastStep'.kind = "ignored"
           /\ requests' = requests
           /\ inflight' = inflight
           /\ cache' = cache
           /\ storedCache' = storedCache)]_vars

\* C4 witness: an invocation was ignored while a request is in flight
C4_Witness ==
  lastStep.kind = "ignored" /\ isLoading /\ Len(inflight) = 1

\* C5: a non-forced request is never in flight for a (location, units)
\* pair whose latest request succeeded cacheTtlMs or less before the
\* new request was issued.
C5_OneRoundTripPerTtlWindow ==
  \A i \in 1..Len(inflight) :
    (~inflight[i].force /\ live # NoLive /\ live.key = inflight[i].key)
      => inflight[i].at - live.t > cacheTtlMs

\* C6: a failed network call (transport error, non-success status or
\* unparsable body) leaves the in-memory cache and the persisted cache
\* exactly as they were: no entry changes and none is created.
C6_FailureLeavesCacheUntouched ==
  [][lastStep'.kind = "fail" => (cache' = cache /\ storedCache' = storedCache)]_vars

\* C6 witness: a request has just failed while the cache holds an entry
\* for the current key
C6_Witness ==
  lastStep.kind = "fail" /\ lastError \in Errors /\ curKey \in DOMAIN cache

\* C7: a cache entry captured more than cacheTtlMs ago is never returned
\* as a cache hit; a non-forced fetch that finds the entry of its key
\* stale issues a request and, on success, overwrites that entry with the
\* new payload stamped with the current time.
C7_StaleEntryRefetchedAndOverwritten ==
  /\ lastStep.kind = "cache" =>
       (curKey \in DOMAIN cache /\ now - cache[curKey].ts <= cacheTtlMs)
  /\ (/\ lastStep.kind \in {"cache", "request"}
      /\ ~lastStep.force
      /\ curKey \in DOMAIN cache
      /\ now - cache[curKey].ts > cacheTtlMs) => lastStep.kind = "request"
  /\ (lastStep.kind = "ok" /\ ~live.force /\ live.stale) =>
       (live.key \in DOMAIN cache /\ cache[live.key] = [ts |-> now, data |-> live.data])

\* C8: a fetch invoked with force issues a network request whether or not
\* a valid cache entry exists, and its result is never a cache hit.
C8_ForcedFetchAlwaysRequests ==
  /\ (lastStep.kind \in {"cache", "request"} /\ lastStep.force) =>
       (/\ lastStep.kind = "request"
        /\ Len(inflight) = 1
        /\ inflight[Len(inflight)].force
        /\ shown.source # "cache")
  /\ (lastStep.kind = "ok" /\ lastStep.force) => shown.source = "live"

\* C8 witness: a forced fetch has issued a request although the entry of
\* the current key is still valid
C8_Witness ==
  /\ lastStep = [kind |-> "request", force |-> TRUE]
  /\ fromCache(cache, cityId, units, now) # NoData

\* C9: a failure ends in a recoverable error state (isLoading false,
\* lastError the failure message, error card shown); while the error is
\* standing no invocation is ignored and a forced one issues a request.
C9_FailureIsRecoverable ==
  [][/\ lastStep'.kind = "fail" =>
          (~isLoading' /\ lastError' \in Errors /\ shown'.kind = "error")
     /\ (lastError \in Errors /\ lastStep'.kind \in UiKinds) =>
          (/\ lastStep'.kind # "ignored"
           /\ lastError' = NoError
           /\ lastStep'.force => (lastStep'.kind = "request" /\ Len(inflight') = 1))]_vars

\* C9 witness: the second request of a run was issued after the first
\* one had failed
C9_Witness ==
  lastStep.kind = "request" /\ requests = 2 /\ live = NoLive /\ lastError = NoError

\* C10: a request is only ever issued by an invocation, one request per
\* invocation; a failure issues none and leaves no request in flight.
C10_NoAutomaticRetry ==
  [][/\ requests' # requests =>
          (/\ lastStep'.kind = "request"
           /\ requests' = requests + 1
           /\ Len(inflight') = Len(inflight) + 1)
     /\ lastStep'.kind \notin UiKinds => Len(inflight') <= Len(inflight)
     /\ lastStep'.kind = "fail" => (requests' = requests /\ inflight' = <<>>)]_vars

\* C10 witness: a request has failed and nothing is in flight
C10_Witness ==
  lastStep.kind = "fail" /\ inflight = <<>> /\ requests >= 1 /\ ~isLoading

\* C11: a step that writes the in-memory cache completes the fetch even
\* when persisting fails: the cache holds the new payload stamped with the
\* current time, the payload is rendered with source "live", no error is
\* set, loading is over, and the persisted cache is either the new mapping
\* or, when the write failed, exactly its previous content.
C11_PersistFailureDoesNotFailFetch ==
  [][cache' # cache =>
       (/\ \E k \in DOMAIN cache' : cache'[k] = [ts |-> now', data |-> live'.data]
        /\ live'.t = now'
        /\ lastStep'.kind = "ok"
        /\ shown'.kind = "weather"
        /\ shown'.source = "live"
        /\ shown'.data = live'.data
        /\ lastError' = NoError
        /\ ~isLoading'
        /\ (storedCache' # stringify(cache') => storedCache' = storedCache))]_vars

\* C11 witness: a fetch has just succeeded although its cache write was
\* not persisted
C11_Witness ==
  /\ lastStep.kind = "ok"
  /\ storedCache # stringify(cache)
  /\ shown.source = "live"
  /\ lastError = NoError
  /\ ~isLoading

\* C12: the cache mapping changes only in the step that completes a
\* successful network fetch, and that step writes exactly the entry of the
\* key the fetch was invoked for: every other entry, and every entry in
\* every other step (cache hit, selection change, ignored invocation,
\* failure), stays as it was, and no key ever leaves the mapping.
C12_OnlySuccessfulFetchWritesOwnEntry ==
  [][/\ DOMAIN cache \subseteq DOMAIN cache'
     /\ cache' # cache =>
          (/\ lastStep'.kind = "ok"
           /\ live'.key \in DOMAIN cache'
           /\ cache'[live'.key] = [ts |-> now', data |-> live'.data]
           /\ \A k \in DOMAIN cache' \ {live'.key} :
                k \in DOMAIN cache /\ cache'[k] = cache[k])]_vars

\* C13: with no persistence failure, the stored cache text is the
\* serialization of the in-memory cache after every successful cache
\* write; a reload restores exactly the mapping last persisted; and the
\* first non-forced invocation after a reload that finds a still-fresh
\* entry for the selection renders it from the cache without a request.
C13_PersistedCacheSurvivesReload ==
  [][/\ cache' # cache /\ lastStep'.kind = "ok" =>
          (storedCache' = stringify(cache') /\ parse(storedCache'.text) = cache')
     /\ lastStep'.kind = "reload" =>
          (/\ storedCache' = storedCache
           /\ cache' = safeJsonParse(storedCache, <<>>)
           /\ storedCache.item => stringify(cache') = storedCache)
     /\ (/\ lastStep.kind = "reload"
         /\ lastStep'.kind \in UiKinds
         /\ ~lastStep'.force
         /\ storedCache.item
         /\ fromCache(parse(storedCache.text), cityId', units', now) # NoData) =>
          (/\ lastStep'.kind = "cache"
           /\ requests' = requests
           /\ inflight' = <<>>
           /\ shown'.source = "cache"
           /\ shown'.data = parse(storedCache.text)[buildKey(cityId', units')].data)]_vars

\* C13 witness: the page has just been reloaded and the reloaded cache
\* holds a still-fresh entry for the restored selection
C13_Witness ==
  /\ lastStep.kind = "reload"
  /\ storedCache.item
  /\ cache = parse(storedCache.text)
  /\ fromCache(cache, cityId, units, now) # NoData

\* C14: when a fetch of this instance succeeds, every entry that the
\* stored cache holds under a key this instance has no entry for (an entry
\* the other instance wrote) is still in the stored cache, unchanged.
C14_PeerEntriesSurviveWrite ==
  [][lastStep'.kind = "ok" =>
       \A k \in DOMAIN parse(storedCache.text) \ DOMAIN cache' :
         /\ k \in DOMAIN parse(storedCache'.text)
         /\ parse(storedCache'.text)[k] = parse(storedCache.text)[k]]_vars

\* C15: an unregistered selected id never makes a fetch fail: no
\* invocation ends in "City not found", and an invocation made with an
\* unregistered id follows the usual flow with the first registered city
\* standing in: a fresh entry of its key is a cache hit shown under the
\* first city's name, otherwise a request for the first city's
\* coordinates is issued, and its response is shown under that name.
C15_UnknownCityFallsBackToFirst ==
  [][/\ lastError' # ErrCity
     /\ (cityId' \notin CityOptions /\ lastStep'.kind \in UiKinds /\ ~isLoading) =>
          IF cacheCheck(lastStep'.force, cache, cityId', units', now) # NoData
          THEN /\ lastStep'.kind = "cache"
               /\ shown'.kind = "weather"
               /\ shown'.city = cities[1]
          ELSE /\ lastStep'.kind = "request"
               /\ Len(inflight') = 1
               /\ inflight'[1].city = cities[1]
               /\ inflight'[1].key = buildKey(cityId', units')
     /\ (cityId' \notin CityOptions /\ lastStep'.kind = "ok") =>
          (/\ shown'.kind = "weather"
           /\ shown'.city = cities[1]
           /\ shown'.data.loc = cities[1]
           /\ lastError' = NoError)]_vars

\* C15 witness: the response of a request made with an unregistered id is
\* shown under the first city's name
C15_Witness ==
  /\ cityId = UnknownCity
  /\ lastStep.kind = "ok"
  /\ shown.kind = "weather"
  /\ shown.city = cities[1]
  /\ lastError = NoError

\* C16: the parameters of a request are those of the selected location
\* and the fixed field lists, the same whichever unit system is selected,
\* with no unit parameter; the payload a successful fetch stores is the
\* response as received, in metric; a change of units leaves the cache
\* as it is; and only the rendered temperature depends on the units.
C16_RequestAndCacheAreMetric ==
  [][/\ lastStep'.kind = "request" =>
          LET r == inflight'[Len(inflight')] IN
          /\ \A u \in Units : r.params = requestParams(getCity(cityId'), u)
          /\ DOMAIN r.params =
               {"latitude", "longitude", "current", "hourly", "timezone", "forecast_hours"}
     /\ lastStep'.kind = "ok" =>
          (/\ \E k \in DOMAIN cache' : cache'[k].data = Response(inflight[1].city, now)
           /\ live'.data.temp = TempC(inflight[1].city)
           /\ shown'.data = live'.data)
     /\ units' # units => \A k \in DOMAIN cache : k \in DOMAIN cache' /\ cache'[k] = cache[k]
     /\ shown'.kind = "weather" =>
          shown'.temp = IF units' = "f" THEN toF(TempC(shown'.data.loc)) ELSE TempC(shown'.data.loc)]_vars

\* C16 witness: with imperial units selected a response has been stored in
\* metric and rendered converted
C16_Witness ==
  /\ units = "f"
  /\ lastStep.kind = "ok"
  /\ curKey \in DOMAIN cache
  /\ cache[curKey].data.temp = TempC(cache[curKey].data.loc)
  /\ shown.kind = "weather"
  /\ shown.temp = toF(cache[curKey].data.temp)
  /\ shown.temp # cache[curKey].data.temp

\* C17: after every step in which a change handler changes the units or
\* the city, the stored units and the stored city equal the in-memory
\* selection; a start restores the stored units exactly when they are a
\* valid unit value (keeping the default otherwise) and restores a stored
\* city id as the selection.
C17_SettingsPersistedAndRestored ==
  [][/\ (lastStep'.kind # "reload" /\ (units' # units \/ cityId' # cityId)) =>
          (storedUnits' = units' /\ storedCity' = cityId')
     /\ lastStep'.kind = "reload" =>
          (/\ units' = IF storedUnits \in Units THEN storedUnits ELSE "c"
           /\ storedCity # "null" => cityId' = storedCity
           /\ UNCHANGED <<storedUnits, storedCity>>)]_vars

\* C20: codeToIcon returns, for every integer code, the label of the
\* table (clear sky, mainly clear, partly cloudy, overcast, fog, drizzle,
\* freezing drizzle, rain, freezing rain, snow, snow grains, showers,
\* thunderstorm, thunderstorm + hail) and "Variable" for every integer
\* outside the table, always with an icon.
C20_CodeToIconTotal ==
  LET c == wcode
      label == CASE c = 0 -> "Clear sky"
                 [] c = 1 -> "Mainly clear"
                 [] c = 2 -> "Partly cloudy"
                 [] c = 3 -> "Overcast"
                 [] c \in {45, 48} -> "Fog"
                 [] c \in {51, 53, 55} -> "Drizzle"
                 [] c \in {56, 57} -> "Freezing drizzle"
                 [] c \in {61, 63, 65} -> "Rain"
                 [] c \in {66, 67} -> "Freezing rain"
                 [] c \in {71, 73, 75} -> "Snow"
                 [] c = 77 -> "Snow grains"
                 [] c \in {80, 81, 82} -> "Showers"
                 [] c = 95 -> "Thunderstorm"
                 [] c \in {96, 99} -> "Thunderstorm + hail"
                 [] OTHER -> "Variable"
  IN
  (wicon # NoIcon /\ wcode # NaN) => (wicon.label = label /\ wicon.icon # "")

\* C20 witness: the unlisted code 12345 was mapped to "Variable"
C20_Witness ==
  wcode = 12345 /\ wicon.label = "Variable"

\* C18 (as stated): for hourly arrays with 24 temperatures, 20 weather
\* codes and at least 20 times, the forecast card is rendered with exactly
\* 20 rows.
C18_TwentyPairedRows ==
  (/\ forecast.done
   /\ Len(hourly.temperature_2m) = 24
   /\ Len(hourly.weather_code) = 20
   /\ Len(hourly.time) >= 20) => Len(forecast.rows) = 20

\* C18 (amended): the forecast card is always rendered, with as many rows
\* as the shortest of the time, temperature and weather-code arrays but at
\* most 8 (so 8 rows for 24 temperatures, 20 codes and 20 or more times),
\* and row i pairs the time, temperature and weather code of hour i.
C18_RowsCappedAtEight ==
  forecast.done =>
    LET n == Len(forecast.rows) IN
    /\ n <= 8
    /\ n <= Len(hourly.time)
    /\ n <= Len(hourly.temperature_2m)
    /\ n <= Len(hourly.weather_code)
    /\ n \in {8, Len(hourly.time), Len(hourly.temperature_2m), Len(hourly.weather_code)}
    /\ \A i \in 1..n :
         /\ forecast.rows[i].time = hourly.time[i]
         /\ forecast.rows[i].temp =
              formatNumber(IF units = "f" THEN toF(hourly.temperature_2m[i])
                           ELSE hourly.temperature_2m[i])
         /\ forecast.rows[i].label = codeToIcon(hourly.weather_code[i]).label

\* C18 witness: 8 rows were rendered from 24 temperatures, 20 weather
\* codes and 20 times
C18_Witness ==
  /\ forecast.done
  /\ Len(hourly.temperature_2m) = 24
  /\ Len(hourly.weather_code) = 20
  /\ Len(hourly.time) = 20
  /\ Len(forecast.rows) = 8

\* C19: the number of forecast rows never exceeds the length of any of
\* the five hourly arrays, so no row shows a value read past the end of
\* an array.
C19_RowsWithinEveryArray ==
  forecast.done =>
    /\ Len(forecast.rows) <= Len(hourly.time)
    /\ Len(forecast.rows) <= Len(hourly.temperature_2m)
    /\ Len(forecast.rows) <= Len(hourly.weather_code)
    /\ Len(forecast.rows) <= Len(hourly.wind_speed_10m)
    /\ Len(forecast.rows) <= Len(hourly.relative_humidity_2m)
    /\ \A i \in 1..Len(forecast.rows) :
         forecast.rows[i].wind # Dash /\ forecast.rows[i].hum # Dash

\* C21: the temperature handed to the display is c * 9/5 + 32 (in tenths:
\* five times the result less 32 degrees is nine times c; 0 gives 32 and
\* 100 gives 212) when the selected units are imperial, and c itself when
\* they are metric.
C21_FahrenheitExactlyWhenImperial ==
  tempShown.done =>
    /\ units = "f" =>
         (/\ 5 * (tempShown.value - 320) = 9 * tempC
          /\ tempC = 0 => tempShown.value = 320
          /\ tempC = 1000 => tempShown.value = 2120)
    /\ units = "c" => tempShown.value = tempC

\* C21 witness: 100 degrees C was rendered as 212 degrees F
C21_Witness ==
  tempShown.done /\ units = "f" /\ tempC = 1000 /\ tempShown.value = 2120

\* C22: whenever a request is in flight for another selection than the
\* current one (the user changed the city or the units meanwhile), then,
\* unless the user changes the selection again or the widget ends in its
\* error state, the widget eventually shows weather of the selected city
\* in the selected units.
C22_InFlightChangeEventuallyShown ==
  \A k \in Keys :
    (Len(inflight) = 1 /\ inflight[1].key # k /\ curKey = k)
      ~> (\/ curKey # k
          \/ shown.kind = "error"
          \/ (/\ shown.kind = "weather"
              /\ shown.city = getCity(cityId)
              /\ shown.units = units
              /\ shown.data.loc = getCity(cityId)))

\* C23: an Escape pressed while an overlay or modal is shown hides the
\* one on top of the stack and removes its entry, an Escape pressed while
\* none is shown and the mobile navigation is open closes the navigation.
C23_EscapeClosesTopmost ==
  [][lastUi' = "escape" =>
       IF shownLayers # {}
       THEN /\ Len(overlayStack) > 0
            /\ overlayStack[Len(overlayStack)].el \in shownLayers
            /\ shownLayers' = shownLayers \ {overlayStack[Len(overlayStack)].el}
            /\ overlayStack' = SubSeq(overlayStack, 1, Len(overlayStack) - 1)
       ELSE navOpen => ~navOpen']_vars

\* C24: the overlay stack holds exactly the shown overlays and modals,
\* each once, and the lock count is the number of shown layers (overlays,
\* modals and the mobile navigation); so with everything hidden the stack
\* is empty and the body scroll is unlocked.
C24_StackMatchesShownLayers ==
  /\ {overlayStack[i].el : i \in 1..Len(overlayStack)} = shownLayers
  /\ Len(overlayStack) = Cardinality(shownLayers)
  /\ lockCount = Cardinality(shownLayers) + (IF navOpen THEN 1 ELSE 0)
  /\ (shownLayers = {} /\ ~navOpen) => (overlayStack = <<>> /\ lockCount = 0)

C26_NextAdvancesUntilAllReached ==
  /\ [][/\ lastNews' = "next" => news'.page = news.page + 1
        /\ lastNews' = "prev" => news'.page = news.page - 1]_vars
  /\ [](lastNews # "init" /\ newsView.nextDisabled =>
          news.page * 6 >= Len(filtered(newsCount, news.filter, news.query)))

\* C27: with gallery items present the lightbox index stays within
\* 0 .. total-1 over any prev/next moves: next from the last item wraps to
\* the first, prev from the first wraps to the last, next followed by prev
\* returns to the same index, and opening with an out-of-range or
\* non-numeric index clamps it into the range (indices in halves).
C27_LightboxIndexWrapsAndClamps ==
  /\ [](galleryTotal > 0 =>
          /\ 0 <= gallery.currentIndex
          /\ gallery.currentIndex <= 2 * (galleryTotal - 1))
  /\ [][/\ (lastGallery' = "next"
              /\ gallery.currentIndex = 2 * (galleryTotal - 1))
             => gallery'.currentIndex = 0
        /\ (lastGallery' = "prev" /\ gallery.currentIndex = 0)
             => gallery'.currentIndex = 2 * (galleryTotal - 1)
        /\ (lastGallery = "next" /\ lastGallery' = "prev")
             => gallery'.currentIndex = indexBefore
        /\ (lastGallery' \in {"api", "card"} /\ galleryTotal > 0)
             => /\ 0 <= gallery'.currentIndex
                /\ gallery'.currentIndex <= 2 * (galleryTotal - 1)]_vars

\* C28: while a filter other than "all" is active, the lightbox opened
\* from a visible card and navigated with prev/next never shows an item
\* that the filter has hidden in the grid.
C28_LightboxShowsOnlyFilteredItems ==
  (/\ gallery.filter # "all"
   /\ galleryModal \in shownLayers
   /\ lightbox.from = "card")
    => lightbox.item \notin galleryHidden

\* C29: every product id is on at most one cart line, every quantity is
\* an integer of at least 1, every line is a catalogue product at its
\* catalogue price, lines keep the order of first add, and no click
\* removes a line or lowers a quantity.
C29_CartLinesUniquePositiveAndGrowOnly ==
  /\ [](/\ \A i, j \in 1..Len(cart) : cart[i].id = cart[j].id => i = j
        /\ \A i \in 1..Len(cart) :
             /\ cart[i].qty \in Nat /\ cart[i].qty >= 1
             /\ \E k \in 1..Len(products) :
                  /\ products[k].id = cart[i].id
                  /\ products[k].price = cart[i].price)
  /\ [][/\ Len(cart') >= Len(cart)
        /\ Len(cart') <= Len(cart) + 1
        /\ \A i \in 1..Len(cart) :
             /\ cart'[i].id = cart[i].id
             /\ cart'[i].qty >= cart[i].qty]_vars

\* C29 witness: two products in the cart in the order of their first add,
\* the first of them added again afterwards
C29_Witness ==
  /\ Len(cart) = 2
  /\ cart[1].id = 5 /\ cart[1].qty = 2
  /\ cart[2].id = 2 /\ cart[2].qty = 1
  /\ lastClick = [kind |-> "add", id |-> 5]

\* C30: the displayed count is the sum of the quantities, which is the
\* number of Add clicks, and the displayed total is the sum of quantity
\* times price to two decimals (0 and 0.00 for the empty cart); each Add
\* raises the count by 1 and the total by the product's price; a click on
\* a non-button or on an unknown id leaves cart and display unchanged.
C30_CountAndTotalFollowAdds ==
  /\ [](LET qtys[k \in 0..Len(cart)] ==
              IF k = 0 THEN 0 ELSE qtys[k - 1] + cart[k].qty
            sums[k \in 0..Len(cart)] ==
              IF k = 0 THEN 0 ELSE sums[k - 1] + cart[k].qty * cart[k].price
        IN /\ cartShown.count = qtys[Len(cart)]
           /\ cartShown.count = adds
           /\ 100 * cartShown.total.int + cartShown.total.frac = sums[Len(cart)]
           /\ cartShown.total.frac \in 0..99
           /\ cart = <<>> => cartShown.count = 0 /\ cartShown.total = [int |-> 0, frac |-> 0])
  /\ [][LET cents(t) == 100 * t.int + t.frac
            indexOf(id) == CHOOSE k \in {1, 2, 3, 4, 5, 6} : products[k].id = id
        IN /\ lastClick'.kind = "add" =>
                /\ cartShown'.count = cartShown.count + 1
                /\ cents(cartShown'.total) =
                     cents(cartShown.total) + products[indexOf(lastClick'.id)].price
           /\ lastClick'.kind = "miss" =>
                /\ cart' = cart
                /\ cartShown' = cartShown]_vars

\* C30 witness: three Add clicks on two products: 2 x 4.99 + 6.50 = 16.48
C30_Witness ==
  /\ adds = 3
  /\ cartShown.count = 3
  /\ cartShown.total = [int |-> 16, frac |-> 48]
  /\ Len(cart) = 2

TypeOK ==
  /\ cityId \in CityOptions \cup {UnknownCity}
  /\ units \in Units
  /\ DOMAIN cache \subseteq Keys \cup {buildKey(UnknownCity, u) : u \in Units}
  /\ isLoading \in BOOLEAN
  /\ Len(inflight) <= 1

====
